---- MODULE Spec2Model ----
(***************************************************************************)
(* Model of the Readwise Official plugin for Obsidian (src/src/main.ts,     *)
(* src/src/status.ts): the export synchronisation state machine, the       *)
(* settings as data.json holds them, and the status bar's message queue.   *)
(* Every async call chain                                                  *)
(* (command, button, timer tick, reimport, startup callback) is a task;    *)
(* a task yields exactly where the code awaits, so the steps of different  *)
(* tasks interleave at the awaits and nowhere else.                        *)
(***************************************************************************)
EXTENDS Integers, Sequences, FiniteSets, TLC

\* ------------------------------------------------------------------ bounds
MaxJob == 2          \* export job ids the server hands out are 0..MaxJob
MaxEntries == 2      \* entries per downloaded archive
MaxQueue == 2        \* length of booksToRefresh the model follows
MaxText == 2         \* chunks of content per file the model follows
MaxTimers == 2       \* live sync intervals the model follows
MaxPending == 3      \* messages waiting in the status bar's queue
MaxClock == 3        \* seconds of Date.now() the model follows

\* Two async call chains may be in flight together.
Tasks == {1, 2}
JobIds == 0..MaxJob

\* ------------------------------------------------------------- program data
\* Values of taskStatus the status endpoint may answer with ("" is a missing one).
TaskStatuses == {"PENDING", "RECEIVED", "STARTED", "RETRY", "SUCCESS", "FAILURE", ""}
WAITING_STATUSES == {"PENDING", "RECEIVED", "STARTED", "RETRY"}
SUCCESS_STATUSES == {"SUCCESS"}

\* A file name is a sequence of pieces of text; the delimiter "--" is a piece
\* of its own.  An archive entry is the file name the server gave it.
NoEntry == <<>>

\* The sync log, Readwise/Readwise Sync.md.
SyncLogEntry == <<"Readwise", "/Readwise Sync", ".md">>

\* Archives of files that belong to no record: the sync log, and a name with
\* a "--" that no digit follows, Readwise/Books/Foo--bar.md.
LogEntries ==
    { SyncLogEntry, <<"Readwise", "/Books/Foo", "--", "bar", ".md">> }

\* Archives of one record, Readwise/Books/Foo--1.md, besides.
RecordEntries ==
    LogEntries \cup { <<"Readwise", "/Books/Foo", "--", "1", ".md">> }

\* A local path is a file name too; this one is no path.
NoPath == <<>>

\* The file of the record Foo, and two paths the user may rename a file to.
FooPath == <<"Readwise", "/Books/Foo", ".md">>
BarPath == <<"Readwise", "/Books/Bar", ".md">>
BazPath == <<"Notes", "/Baz", ".md">>
RenameTargets == {FooPath, BarPath, BazPath}

\* bookIds argument of syncBookHighlights: undefined, or an array.
NoIds == [given |-> FALSE, list |-> <<>>]
Ids(l) == [given |-> TRUE, list |-> l]

VARIABLES
    \* this.settings
    isSyncing, currentSyncStatusID, lastSavedStatusID, lastSyncFailed,
    booksToRefresh, booksIDsMap, refreshBooks, triggerOnLoad, frequency, readwiseDir,
    token,
    \* plugin fields, the window's live sync intervals, and the vault: the
    \* paths of its files and the content of each, a sequence of chunks
    scheduleInterval, timers, files, text,
    \* the onLayoutReady callback: "pending", "resume", "onload", "done"
    bootPhase, bootTask,
    \* the Connect button's call of getUserAuthToken: where the innermost
    \* call is suspended, its attempt, and what the button got back
    \* ("none", "true", "undefined" or "rejected")
    authPc, attempt, success,
    \* of that call: the polls of /api/auth sent and the authorization pages
    \* opened since the click
    polls, opened,
    \* data.json: what the last saveData was handed of the settings that must
    \* survive a restart
    disk,
    \* the StatusBar (status.ts): its fields, the text of its element, and
    \* Date.now() in milliseconds
    messages, currentMessage, lastMessageTimestamp, statusBarEl, now,
    \* per task: where it is suspended and its local variables
    pc, job, exp, via, ent, rem, ids, call, startLast, fileName

vars == << isSyncing, currentSyncStatusID, lastSavedStatusID, lastSyncFailed,
           booksToRefresh, booksIDsMap, refreshBooks, triggerOnLoad, frequency,
           readwiseDir, token, scheduleInterval, timers, files, text, bootPhase, bootTask,
           authPc, attempt, success, polls, opened, disk,
           messages, currentMessage, lastMessageTimestamp, statusBarEl, now,
           pc, job, exp, via, ent, rem, ids, call, startLast, fileName >>

\* The whole state as one record, so that a handler is a function from state
\* to state and handlers compose the way the calls in the code nest.
Pack ==
    [ isSyncing |-> isSyncing, currentSyncStatusID |-> currentSyncStatusID,
      lastSavedStatusID |-> lastSavedStatusID, lastSyncFailed |-> lastSyncFailed,
      booksToRefresh |-> booksToRefresh, booksIDsMap |-> booksIDsMap,
      refreshBooks |-> refreshBooks, triggerOnLoad |-> triggerOnLoad,
      frequency |-> frequency, readwiseDir |-> readwiseDir,
      token |-> token, scheduleInterval |-> scheduleInterval, timers |-> timers,
      files |-> files, text |-> text,
      bootPhase |-> bootPhase, bootTask |-> bootTask,
      authPc |-> authPc, attempt |-> attempt, success |-> success,
      polls |-> polls, opened |-> opened, disk |-> disk,
      messages |-> messages, currentMessage |-> currentMessage,
      lastMessageTimestamp |-> lastMessageTimestamp, statusBarEl |-> statusBarEl, now |-> now,
      pc |-> pc, job |-> job, exp |-> exp, via |-> via, ent |-> ent, rem |-> rem,
      ids |-> ids, call |-> call, startLast |-> startLast, fileName |-> fileName ]

Commit(S) ==
    /\ Len(S.booksToRefresh) <= MaxQueue
    /\ \A p \in S.files : Len(S.text[p]) <= MaxText
    /\ S.timers <= MaxTimers
    /\ Len(S.messages) <= MaxPending
    /\ S.now <= MaxClock * 1000
    /\ token' = S.token
    /\ timers' = S.timers
    /\ text' = S.text
    /\ isSyncing' = S.isSyncing
    /\ currentSyncStatusID' = S.currentSyncStatusID
    /\ lastSavedStatusID' = S.lastSavedStatusID
    /\ lastSyncFailed' = S.lastSyncFailed
    /\ booksToRefresh' = S.booksToRefresh
    /\ booksIDsMap' = S.booksIDsMap
    /\ refreshBooks' = S.refreshBooks
    /\ triggerOnLoad' = S.triggerOnLoad
    /\ frequency' = S.frequency
    /\ readwiseDir' = S.readwiseDir
    /\ scheduleInterval' = S.scheduleInterval
    /\ files' = S.files
    /\ bootPhase' = S.bootPhase
    /\ bootTask' = S.bootTask
    /\ authPc' = S.authPc
    /\ attempt' = S.attempt
    /\ success' = S.success
    /\ polls' = S.polls
    /\ opened' = S.opened
    /\ disk' = S.disk
    /\ messages' = S.messages
    /\ currentMessage' = S.currentMessage
    /\ lastMessageTimestamp' = S.lastMessageTimestamp
    /\ statusBarEl' = S.statusBarEl
    /\ now' = S.now
    /\ pc' = S.pc
    /\ job' = S.job
    /\ exp' = S.exp
    /\ via' = S.via
    /\ ent' = S.ent
    /\ rem' = S.rem
    /\ ids' = S.ids
    /\ call' = S.call
    /\ startLast' = S.startLast
    /\ fileName' = S.fileName

\* ------------------------------------------------------------------ helpers
\* booksIDsMap is a JavaScript object: its keys in insertion order.
MapKeys(m) == [i \in 1..Len(m) |-> m[i].path]
MapHas(m, p) == \E i \in 1..Len(m) : m[i].path = p
MapGet(m, p) == IF MapHas(m, p) THEN (CHOOSE i \in 1..Len(m) : m[i].path = p) ELSE 0
MapValue(m, p) == IF MapHas(m, p) THEN m[MapGet(m, p)].id ELSE 0
MapSet(m, p, v) ==
    IF MapHas(m, p)
    THEN [m EXCEPT ![MapGet(m, p)] = [path |-> p, id |-> v]]
    ELSE Append(m, [path |-> p, id |-> v])
MapDelete(m, p) == SelectSeq(m, LAMBDA kv : kv.path # p)

Contains(s, x) == \E i \in 1..Len(s) : s[i] = x

\* Array.from(new Set(s)): the first occurrence of every element, in order.
RECURSIVE Dedupe(_)
Dedupe(s) ==
    IF s = <<>> THEN <<>>
    ELSE LET front == Dedupe(SubSeq(s, 1, Len(s) - 1))
             x == s[Len(s)]
         IN IF Contains(front, x) THEN front ELSE Append(front, x)


\* ------------------------------------------------------------ the vault
\* fs.write(path, content)
WriteFile(S, path, content) ==
    [S EXCEPT !.files = @ \cup {path},
              !.text = [p \in S.files \cup {path} |-> IF p = path THEN content ELSE S.text[p]]]

\* vault.delete(file), or the user deleting the file
DeleteFile(S, path) ==
    [S EXCEPT !.files = @ \ {path}, !.text = [p \in S.files \ {path} |-> S.text[p]]]

\* The vault has moved the file from oldPath to newPath.
MoveFile(S, oldPath, newPath) ==
    WriteFile(DeleteFile(S, oldPath), newPath, S.text[oldPath])

\* A contentToSave that drops what the file held.
ContentToSave_Overwrite(exists, existingContent, contents) == contents

\* contentToSave: the new contents, after the existing content when the file
\* is already there.
ContentToSave(exists, existingContent, contents) ==
    IF exists THEN existingContent \o contents ELSE contents

\* ------------------------------------------------- path and id derivation
\* entry.filename.replace(/^Readwise/, readwiseDir): a leading "Readwise" is
\* replaced by the base directory, any other name is kept.
ProcessedFileName(e, dir) ==
    IF e # <<>> /\ Head(e) = "Readwise" THEN dir \o Tail(e) ELSE e

\* The index of the last "--" of the name, 0 when there is none.
LastDelimiter(p) ==
    IF \E i \in 1..Len(p) : p[i] = "--"
    THEN CHOOSE i \in 1..Len(p) : p[i] = "--" /\ \A j \in (i + 1)..Len(p) : p[j] # "--"
    ELSE 0

\* split("--").length > 1
HasDelimiter(p) == LastDelimiter(p) # 0

\* split("--").last(): the text after the last delimiter
LastPart(p) == SubSeq(p, LastDelimiter(p) + 1, Len(p))

\* The first run of digits of a piece of text, 0 when it has none.
PieceDigits(piece) ==
    CASE piece = "1" -> 1
      [] piece = "2Notes" -> 2
      [] OTHER -> 0

\* match(/\d+/g): the pieces of the text that hold digits, in order.
DigitRuns(part) == SelectSeq(part, LAMBDA piece : PieceDigits(piece) # 0)

\* split.slice(0, -1).join("--") + ".md" with a delimiter; without one the
\* processed name is kept.
OriginalName(p) ==
    IF HasDelimiter(p) THEN SubSeq(p, 1, LastDelimiter(p) - 1) \o <<".md">> ELSE p

\* split.last().match(/\d+/g)[0] throws a TypeError when match returns null.
IdThrows(p) == HasDelimiter(p) /\ DigitRuns(LastPart(p)) = <<>>

\* bookID stays undefined (0) for a name without delimiter.
BookID(p) ==
    IF HasDelimiter(p) /\ DigitRuns(LastPart(p)) # <<>>
    THEN PieceDigits(DigitRuns(LastPart(p))[1])
    ELSE 0

\* ------------------------------------------------- the settings' handlers
\* The settings that must survive a restart.
Persistent(S) ==
    [ isSyncing |-> S.isSyncing, currentSyncStatusID |-> S.currentSyncStatusID,
      booksToRefresh |-> S.booksToRefresh, booksIDsMap |-> S.booksIDsMap ]

\* saveSettings: saveData is handed the settings as they are at the call.
SaveSettings(S) == [S EXCEPT !.disk = Persistent(S)]

ResetLocals(S, t) ==
    [S EXCEPT !.job[t] = 0, !.exp[t] = 0, !.via[t] = "none", !.ent[t] = NoEntry,
              !.rem[t] = 0, !.ids[t] = NoIds, !.call[t] = "none", !.startLast[t] = 0,
              !.fileName[t] = NoPath]

ClearSettingsAfterRun(S) ==
    SaveSettings([S EXCEPT !.isSyncing = FALSE, !.currentSyncStatusID = 0])

\* handleSyncError up to its first await (the save inside clearSettingsAfterRun).
\* site is "ack" when acknowledgeSyncCompleted calls it, "cycle" otherwise.
HandleSyncError(S, t, site) ==
    [ClearSettingsAfterRun(S) EXCEPT !.pc[t] = IF site = "ack" THEN "ha_save1" ELSE "he_save1"]

\* handleSyncSuccess up to its first await; exportID 0 is the default null.
\* how records what led to it: "stale", "skip", "other", "merged", and
\* "unacked" for a merge whose acknowledgement failed.
HandleSyncSuccess(S, t, exportID, how) ==
    [ClearSettingsAfterRun(S) EXCEPT !.pc[t] = "hs_save1", !.exp[t] = exportID, !.via[t] = how]

\* A configureSchedule that forgets the interval without ending it.
ClearInterval_Keep(S) ==
    [S EXCEPT !.scheduleInterval = 0]

\* clearInterval(this.scheduleInterval) ends the interval the field refers to.
ClearInterval(S) ==
    [S EXCEPT !.timers = IF S.scheduleInterval # 0 THEN @ - 1 ELSE @, !.scheduleInterval = 0]

\* scheduleInterval is 0 for null, 1 for the handle of the interval installed last.
ConfigureSchedule(S) ==
    LET S1 == ClearInterval(S)
    IN IF S.frequency = 0 THEN S1
       ELSE [S1 EXCEPT !.timers = @ + 1, !.scheduleInterval = 1]

\* A sync start that does not look for missing files.
MissingIds_None(S) == <<>>

\* A sync start that takes every tracked record for missing.
MissingIds_All(S) == [i \in 1..Len(S.booksIDsMap) |-> S.booksIDsMap[i].id]

\* A sync start that takes up the first missing file only.
MissingIds_First(S) ==
    LET sel == SelectSeq(S.booksIDsMap, LAMBDA kv : kv.path \notin S.files)
    IN IF sel = <<>> THEN <<>> ELSE <<sel[1].id>>

\* ids of the tracked paths whose file is gone, in the key order of booksIDsMap.
MissingIds(S) ==
    LET sel == SelectSeq(S.booksIDsMap, LAMBDA kv : kv.path \notin S.files)
    IN [i \in 1..Len(sel) |-> sel[i].id]

RECURSIVE Finish(_, _)

\* queueExport up to its first await.
QueueExport(S, t, site) ==
    IF S.isSyncing
    THEN Finish(S, t)
    ELSE SaveSettings([S EXCEPT !.isSyncing = TRUE, !.pc[t] = "qe_pre", !.call[t] = site,
                                !.startLast[t] = S.lastSavedStatusID])

\* A syncBookHighlights that does not look for the token.
SyncBookHighlights_Anonymous(S, t, bookIds) ==
    LET shouldGetMissingBooks == S.refreshBooks /\ (~bookIds.given \/ bookIds.list = <<>>)
        pushed == IF shouldGetMissingBooks THEN MissingIds(S) ELSE <<>>
        targetBookIds == IF bookIds.given THEN bookIds.list \o pushed
                         ELSE S.booksToRefresh \o pushed
        S1 == IF bookIds.given THEN S ELSE [S EXCEPT !.booksToRefresh = targetBookIds]
    IN IF S.booksIDsMap = <<>> THEN QueueExport(S1, t, "direct")
       ELSE IF targetBookIds = <<>> THEN QueueExport(S1, t, "direct")
       ELSE [S1 EXCEPT !.pc[t] = "sb_refresh", !.ids[t] = bookIds]

\* syncBookHighlights up to its first await.  Without bookIds, targetBookIds
\* IS settings.booksToRefresh, so the pushes land in the settings.
SyncBookHighlights(S, t, bookIds) ==
    LET shouldGetMissingBooks == S.refreshBooks /\ (~bookIds.given \/ bookIds.list = <<>>)
        pushed == IF shouldGetMissingBooks THEN MissingIds(S) ELSE <<>>
        targetBookIds == IF bookIds.given THEN bookIds.list \o pushed
                         ELSE S.booksToRefresh \o pushed
        S1 == IF bookIds.given THEN S ELSE [S EXCEPT !.booksToRefresh = targetBookIds]
    IN IF ~S.token THEN Finish(S, t)
       ELSE IF S.booksIDsMap = <<>> THEN QueueExport(S1, t, "direct")
       ELSE IF targetBookIds = <<>> THEN QueueExport(S1, t, "direct")
       ELSE [S1 EXCEPT !.pc[t] = "sb_refresh", !.ids[t] = bookIds]

\* An onLayoutReady callback that goes from the resume to configureSchedule.
Finish_NoOnLoad(S, t) ==
    LET S0 == [ResetLocals(S, t) EXCEPT !.pc[t] = "idle"]
    IN IF S.bootTask = t /\ S.bootPhase \in {"resume", "onload"}
       THEN ConfigureSchedule([S0 EXCEPT !.bootPhase = "done", !.bootTask = 0])
       ELSE S0

\* The call chain of task t has returned to whoever started it.  The
\* onLayoutReady callback goes on: after the resume (or the reset), the
\* sync on load; after that, configureSchedule.
Finish(S, t) ==
    LET S0 == [ResetLocals(S, t) EXCEPT !.pc[t] = "idle"]
    IN IF S.bootTask = t /\ S.bootPhase = "resume"
       THEN IF S.triggerOnLoad
            THEN SyncBookHighlights([S0 EXCEPT !.bootPhase = "onload"], t, NoIds)
            ELSE ConfigureSchedule([S0 EXCEPT !.bootPhase = "done", !.bootTask = 0])
       ELSE IF S.bootTask = t /\ S.bootPhase = "onload"
       THEN ConfigureSchedule([S0 EXCEPT !.bootPhase = "done", !.bootTask = 0])
       ELSE S0

\* An exception leaves queueExport.  The call at line 473 sits in the try of
\* syncBookHighlights; from the other two it reaches the caller, and the
\* onLayoutReady callback then never gets to configureSchedule.
Escape(S, t) ==
    IF S.call[t] # "caught" /\ S.bootTask = t /\ S.bootPhase = "onload"
    THEN [ResetLocals(S, t) EXCEPT !.pc[t] = "idle", !.bootPhase = "done", !.bootTask = 0]
    ELSE Finish(S, t)


\* ------------------------------------------------------- refresh queue
AddBookToRefresh(S, bookId) ==
    SaveSettings([S EXCEPT !.booksToRefresh = Append(@, bookId)])

\* A removal that takes out the first queued copy only.
RemoveBooksFromRefresh_First(S, bookIds) ==
    IF bookIds = <<>> THEN S
    ELSE LET q == S.booksToRefresh
             hit == {i \in 1..Len(q) : Contains(bookIds, q[i])}
         IN IF hit = {} THEN SaveSettings(S)
            ELSE LET first == CHOOSE i \in hit : \A j \in hit : i <= j
                 IN SaveSettings([S EXCEPT !.booksToRefresh =
                                         SubSeq(q, 1, first - 1) \o SubSeq(q, first + 1, Len(q))])

\* An empty bookIds returns early; otherwise the listed ids are filtered out.
RemoveBooksFromRefresh(S, bookIds) ==
    IF bookIds = <<>> THEN S
    ELSE SaveSettings([S EXCEPT !.booksToRefresh = SelectSeq(@, LAMBDA n : ~Contains(bookIds, n))])

\* ------------------------------------------------------- download and merge
\* A guard that lets the export equal to lastSavedStatusID through.
AlreadySaved_Strict(S, exportID) == exportID < S.lastSavedStatusID

\* The guard of downloadExport: this export was already saved.
AlreadySaved(S, exportID) == exportID <= S.lastSavedStatusID

\* downloadExport up to its first await.
DownloadExport(S, t, exportID) ==
    IF AlreadySaved(S, exportID)
    THEN HandleSyncSuccess(S, t, 0, "skip")
    ELSE [S EXCEPT !.pc[t] = "dl_fetch"]

\* A loop that takes up the entries without tracking them.
NextEntry_Untracked(S, t, e) ==
    IF S.rem[t] = 0
    THEN [S EXCEPT !.pc[t] = "ack_wait", !.ent[t] = NoEntry]
    ELSE LET p == ProcessedFileName(e, S.readwiseDir)
         IN IF HasDelimiter(p) /\ IdThrows(p)
            THEN HandleSyncError([S EXCEPT !.ent[t] = NoEntry, !.rem[t] = 0], t, "cycle")
            ELSE [S EXCEPT !.pc[t] = "mg_fs", !.ent[t] = e, !.rem[t] = @ - 1]

\* The top of the for loop over the entries, up to the entry's first await; e
\* is the next entry of the archive.  After the last entry the reader is
\* closed and the acknowledgement sent.  The TypeError of the id derivation is
\* outside every try of downloadExport: getExportStatus catches it.
NextEntry(S, t, e) ==
    IF S.rem[t] = 0
    THEN [S EXCEPT !.pc[t] = "ack_wait", !.ent[t] = NoEntry]
    ELSE LET p == ProcessedFileName(e, S.readwiseDir)
         IN IF HasDelimiter(p) /\ IdThrows(p)
            THEN HandleSyncError([S EXCEPT !.ent[t] = NoEntry, !.rem[t] = 0], t, "cycle")
            ELSE LET S1 == [S EXCEPT !.pc[t] = "mg_fs", !.ent[t] = e, !.rem[t] = @ - 1]
                 IN IF HasDelimiter(p)
                    THEN SaveSettings([S1 EXCEPT !.booksIDsMap =
                                           MapSet(@, OriginalName(p), BookID(p))])
                    ELSE S1

\* ------------------------------------------------------------------ actions
Started == bootPhase # "pending"

\* Idle tasks are interchangeable: a new call chain takes the first one.
FirstIdle(t) == pc[t] = "idle" /\ \A u \in Tasks : u < t => pc[u] # "idle"

\* The onLayoutReady callback without its resume branch.
Startup_Fresh(t) ==
    /\ bootPhase = "pending"
    /\ FirstIdle(t)
    /\ Commit(SaveSettings([Pack EXCEPT !.isSyncing = FALSE, !.bootPhase = "resume",
                                        !.bootTask = t, !.pc[t] = "boot_save"]))

\* The onLayoutReady callback, up to its first await.
Startup(t) ==
    /\ bootPhase = "pending"
    /\ FirstIdle(t)
    /\ IF isSyncing /\ currentSyncStatusID # 0
       THEN Commit([Pack EXCEPT !.bootPhase = "resume", !.bootTask = t,
                                !.pc[t] = "ge_fetch", !.job[t] = currentSyncStatusID,
                                !.startLast[t] = lastSavedStatusID])
       ELSE Commit(SaveSettings([Pack EXCEPT !.isSyncing = FALSE, !.bootPhase = "resume",
                                             !.bootTask = t, !.pc[t] = "boot_save"]))

BootSaved(t) ==
    /\ pc[t] = "boot_save"
    /\ Commit(Finish(Pack, t))

\* The command "Sync your data now".
CommandSync(t) ==
    /\ Started
    /\ FirstIdle(t)
    /\ Commit(SyncBookHighlights(Pack, t, NoIds))

\* The "Initiate Sync" button: while isSyncing it only shows a Notice.
ButtonSync(t) ==
    /\ Started
    /\ FirstIdle(t)
    /\ ~isSyncing
    /\ Commit(SyncBookHighlights(Pack, t, NoIds))

\* The interval installed by configureSchedule fires.
TimerTick(t) ==
    /\ timers > 0
    /\ FirstIdle(t)
    /\ Commit(SyncBookHighlights(Pack, t, NoIds))

\* ------------------------------------------------------------- status bar
\* A text is a sequence of pieces of 50 characters (a short text is one
\* piece); slice(0, 100) keeps the first two.
SliceLimit == 2

\* message.slice(0, 100)
Slice(message) ==
    SubSeq(message, 1, IF Len(message) < SliceLimit THEN Len(message) ELSE SliceLimit)

\* `readwise: ${message.slice(0, 100)}`
Formatted(message) == <<"readwise: ">> \o Slice(message)

\* currentMessage when it is null or undefined.
NoMessage == [message |-> <<>>, timeout |-> 0]

\* StatusBar.display()
Display(S) ==
    IF S.currentMessage # NoMessage
    THEN IF S.now - S.lastMessageTimestamp >= S.currentMessage.timeout
         THEN [S EXCEPT !.currentMessage = NoMessage, !.lastMessageTimestamp = 0]
         ELSE S
    ELSE IF S.messages # <<>>
    THEN [S EXCEPT !.currentMessage = Head(S.messages), !.messages = Tail(S.messages),
                   !.statusBarEl = Head(S.messages).message,
                   !.lastMessageTimestamp = S.now]
    ELSE [S EXCEPT !.statusBarEl = <<>>]

\* The message at the head of the queue is the text of this call: the
\* stored message is compared with the text as it was passed.
SameAsHead(S, message) ==
    S.messages # <<>> /\ Head(S.messages).message = message

\* StatusBar.displayMessage(message, timeout, forcing)
DisplayMessage(S, message, timeout, forcing) ==
    IF SameAsHead(S, message) THEN S
    ELSE LET S1 == [S EXCEPT !.messages = Append(@, [message |-> Formatted(message),
                                                     timeout |-> timeout * 1000])]
             S2 == IF forcing
                   THEN [S1 EXCEPT !.currentMessage = NoMessage, !.lastMessageTimestamp = 0,
                                   !.statusBarEl = <<>>]
                   ELSE S1
         IN Display(S2)

\* The texts and timeouts notice() is called with.
Texts == { <<"building export...">>, <<"synced">>,
           <<"error while writing ", "a long path", " and its reason">> }
Timeouts == {0, 4}

\* notice() on the desktop hands the text to the status bar.
Notice(message, timeout, forcing) ==
    /\ Commit(DisplayMessage(Pack, message, timeout, forcing))

\* The one second interval of onload calls display().
DisplayTick ==
    /\ Commit(Display(Pack))

\* A second passes.
ClockTick ==
    /\ now < MaxClock * 1000
    /\ Commit([Pack EXCEPT !.now = @ + 1000])

\* ----------------------------------------------------------- authorization
\* The retry limit of getUserAuthToken: attempt > 20 gives up.
AttemptLimit == 20

AuthResponses == {"throw", "notok", "badjson", "token", "notoken"}

\* The call of getUserAuthToken with S.attempt returns result.  The outermost
\* call hands it to the button; an inner call hands it to the await of line
\* 689, which drops it, and the caller goes on to its last saveSettings.
GetUserAuthTokenReturns(S, result) ==
    IF S.attempt = 0
    THEN [S EXCEPT !.authPc = "idle", !.success = result]
    ELSE [S EXCEPT !.attempt = @ - 1, !.authPc = "save_end"]

\* getUserAuthToken(button, n) up to its first await: the authorization
\* page is opened when attempt === 0, then the poll is sent.
GetUserAuthToken(S, n) ==
    [S EXCEPT !.attempt = n, !.authPc = "fetch", !.polls = @ + 1,
              !.opened = IF n = 0 THEN @ + 1 ELSE @]

\* The Connect button, shown while no token is stored.
Connect ==
    /\ Started
    /\ authPc = "idle"
    /\ ~token
    /\ Commit(GetUserAuthToken([Pack EXCEPT !.success = "none", !.polls = 0, !.opened = 0], 0))

\* The poll comes back.  r is "throw" (fetch rejected), "notok", "badjson"
\* (response.json() rejected: no call of the chain catches it), "token" or
\* "notoken" (no userAccessToken yet).
AuthResponse(r) ==
    /\ authPc = "fetch"
    /\ LET S == Pack
       IN CASE r \in {"throw", "notok"} -> Commit(GetUserAuthTokenReturns(S, "undefined"))
            [] r = "badjson" ->
                 Commit([S EXCEPT !.authPc = "idle", !.attempt = 0, !.success = "rejected"])
            [] r = "token" ->
                 Commit(SaveSettings([S EXCEPT !.token = TRUE, !.authPc = "save_token"]))
            [] r = "notoken" ->
                 IF attempt > AttemptLimit
                 THEN Commit(GetUserAuthTokenReturns(S, "undefined"))
                 ELSE Commit([S EXCEPT !.authPc = "sleep"])

\* The token is saved: on to the last saveSettings of the call.
AuthTokenSaved ==
    /\ authPc = "save_token"
    /\ Commit(SaveSettings([Pack EXCEPT !.authPc = "save_end"]))

\* The second has passed: the next poll, in a recursive call.
AuthRetry ==
    /\ authPc = "sleep"
    /\ Commit(GetUserAuthToken(Pack, attempt + 1))

\* The last saveSettings of a call is over: return true.
AuthSaved ==
    /\ authPc = "save_end"
    /\ Commit(GetUserAuthTokenReturns(Pack, "true"))

\* The options of the "Configure resync frequency" dropdown, in minutes.
Frequencies == {0, 60, 720}

\* The dropdown's onChange up to its await: the new value is stored.
SetFrequency(t, newValue) ==
    /\ Started
    /\ FirstIdle(t)
    /\ Commit(SaveSettings([Pack EXCEPT !.frequency = newValue, !.pc[t] = "fq_save"]))

\* The settings are saved: the interval is destroyed and created again.
FrequencySaved(t) ==
    /\ pc[t] = "fq_save"
    /\ Commit(ConfigureSchedule([Pack EXCEPT !.pc[t] = "idle"]))

\* The command "Delete and reimport this document" on the active file.
Reimport(t, path) ==
    /\ Started
    /\ FirstIdle(t)
    /\ path \in files
    /\ MapHas(booksIDsMap, path)
    /\ Commit([Pack EXCEPT !.pc[t] = "ri_delete", !.fileName[t] = path])

ReimportDeleted(t) ==
    /\ pc[t] = "ri_delete"
    /\ LET S1 == [DeleteFile(Pack, fileName[t]) EXCEPT !.pc[t] = "idle"]
           bookId == MapValue(booksIDsMap, fileName[t])
       IN Commit(SyncBookHighlights(S1, t, Ids(<<bookId>>)))

\* The user deletes a file in the vault (this version registers no handler).
UserDelete(path) ==
    /\ Started
    /\ path \in files
    /\ Commit(DeleteFile(Pack, path))


\* A rename handler that leaves the entry of the old path in place.
RenameHandler_Copy(S, oldPath, newPath) ==
    LET bookId == MapValue(S.booksIDsMap, oldPath)
    IN IF bookId = 0 THEN S
       ELSE SaveSettings([S EXCEPT !.booksIDsMap = MapSet(@, newPath, bookId)])

\* A rename handler without the early return for an untracked path.
RenameHandler_Untracked(S, oldPath, newPath) ==
    LET bookId == MapValue(S.booksIDsMap, oldPath)
    IN SaveSettings([S EXCEPT !.booksIDsMap = MapSet(MapDelete(@, oldPath), newPath, bookId)])

\* The handler of the vault's "rename" event, up to its await of the save.
RenameHandler(S, oldPath, newPath) ==
    LET bookId == MapValue(S.booksIDsMap, oldPath)
    IN IF bookId = 0 THEN S
       ELSE SaveSettings([S EXCEPT !.booksIDsMap = MapSet(MapDelete(@, oldPath), newPath, bookId)])

\* The user renames a file in the vault; the "rename" event follows.
UserRename(oldPath, newPath) ==
    /\ oldPath \in files
    /\ newPath \notin files
    /\ Commit(RenameHandler(MoveFile(Pack, oldPath, newPath), oldPath, newPath))

\* queueExport after  await saveSettings()  and  await exists(readwiseDir):
\* the create-export request (/api/obsidian/init) is issued.
QueueExportRequest(t) ==
    /\ pc[t] = "qe_pre"
    /\ Commit([Pack EXCEPT !.pc[t] = "qe_fetch"])

\* The create-export request comes back.  r is "throw" (fetch rejected),
\* "notok" (non-2xx), "badjson" (response.json() rejected, outside any try of
\* queueExport) or "ok" with latest_id.
QueueExportResponse(t, r, latest_id) ==
    /\ pc[t] = "qe_fetch"
    /\ LET S == Pack
       IN CASE r \in {"throw", "notok"} -> Commit(HandleSyncError(S, t, "cycle"))
            [] r = "badjson" -> Commit(Escape(S, t))
            [] r = "ok" ->
                 IF latest_id <= S.lastSavedStatusID
                 THEN Commit(HandleSyncSuccess(S, t, 0, "stale"))
                 ELSE Commit(SaveSettings([S EXCEPT !.currentSyncStatusID = latest_id,
                                                    !.job[t] = latest_id, !.pc[t] = "qe_savecur"]))

\* A queueExport that downloads the export without polling its status.
QueueExportSaved_NoPoll(t, created) ==
    /\ pc[t] = "qe_savecur"
    /\ IF created
       THEN Commit(DownloadExport([Pack EXCEPT !.job[t] = currentSyncStatusID], t,
                                  currentSyncStatusID))
       ELSE Commit(HandleSyncSuccess(Pack, t, job[t], "other"))

\* queueExport after saving currentSyncStatusID: HTTP 201 polls the id now in
\* the settings, any other 2xx is a success with data.latest_id.
QueueExportSaved(t, created) ==
    /\ pc[t] = "qe_savecur"
    /\ IF created
       THEN Commit([Pack EXCEPT !.pc[t] = "ge_fetch", !.job[t] = currentSyncStatusID])
       ELSE Commit(HandleSyncSuccess(Pack, t, job[t], "other"))

\* Buckets in which a missing status counts as not ready yet.
Classify_Lenient(taskStatus) ==
    IF taskStatus \in WAITING_STATUSES \cup {""} THEN "waiting"
    ELSE IF taskStatus \in SUCCESS_STATUSES THEN "success"
    ELSE "failure"

\* The three buckets of getExportStatus.
Classify(taskStatus) ==
    IF taskStatus \in WAITING_STATUSES THEN "waiting"
    ELSE IF taskStatus \in SUCCESS_STATUSES THEN "success"
    ELSE "failure"

\* A getExportStatus that polls again after a poll that failed.
ExportStatusResponse_Retry(t, r, taskStatus) ==
    /\ pc[t] = "ge_fetch"
    /\ LET S == Pack
       IN IF r # "ok"
          THEN Commit([S EXCEPT !.pc[t] = "ge_sleep"])
          ELSE CASE Classify(taskStatus) = "waiting" -> Commit([S EXCEPT !.pc[t] = "ge_sleep"])
                 [] Classify(taskStatus) = "success" -> Commit(DownloadExport(S, t, job[t]))
                 [] OTHER -> Commit(HandleSyncError(S, t, "cycle"))

\* A status poll comes back.  r is "throw", "notok", "badjson" or "ok" with
\* taskStatus; everything of getExportStatus sits in its try.
ExportStatusResponse(t, r, taskStatus) ==
    /\ pc[t] = "ge_fetch"
    /\ LET S == Pack
       IN IF r # "ok"
          THEN Commit(HandleSyncError(S, t, "cycle"))
          ELSE CASE Classify(taskStatus) = "waiting" -> Commit([S EXCEPT !.pc[t] = "ge_sleep"])
                 [] Classify(taskStatus) = "success" -> Commit(DownloadExport(S, t, job[t]))
                 [] OTHER -> Commit(HandleSyncError(S, t, "cycle"))

\* The one second delay is over: poll again.
ExportStatusRetry(t) ==
    /\ pc[t] = "ge_sleep"
    /\ Commit([Pack EXCEPT !.pc[t] = "ge_fetch"])

\* The download comes back.  r is "throw", "notok", "badzip" (blob() or
\* getEntries() rejected: caught by getExportStatus) or "ok" with an archive
\* of n entries, the first of them e.
DownloadResponse(t, r, n, e) ==
    /\ pc[t] = "dl_fetch"
    /\ IF r # "ok"
       THEN Commit(HandleSyncError(Pack, t, "cycle"))
       ELSE Commit(NextEntry([Pack EXCEPT !.rem[t] = n], t, e))

\* The file system calls of the current entry are over.  written: exists,
\* mkdir, getData, read and write all went through; otherwise one of them
\* threw.  contents is the entry's data, e the next entry of the archive.
EntryWritten(t, written, contents, e) ==
    /\ pc[t] = "mg_fs"
    /\ LET S == Pack
           p == ProcessedFileName(ent[t], readwiseDir)
           bookID == BookID(p)
           originalName == OriginalName(p)
           exists == originalName \in files
           contentToSave == ContentToSave(exists, IF exists THEN text[originalName] ELSE <<>>,
                                          <<contents>>)
       IN IF written
          THEN Commit([SaveSettings(RemoveBooksFromRefresh(WriteFile(S, originalName, contentToSave),
                                                           <<bookID>>))
                          EXCEPT !.pc[t] = "mg_save"])
          ELSE IF bookID # 0
               THEN Commit([AddBookToRefresh(S, bookID) EXCEPT !.pc[t] = "mg_save"])
               ELSE Commit(NextEntry(S, t, e))

\* The saves that end the entry are over: on to the next entry.
EntrySaved(t, e) ==
    /\ pc[t] = "mg_save"
    /\ Commit(NextEntry(Pack, t, e))

\* acknowledgeSyncCompleted: the sync_ack request comes back.
AcknowledgeResponse(t, ok) ==
    /\ pc[t] = "ack_wait"
    /\ IF ok
       THEN Commit(HandleSyncSuccess(Pack, t, job[t], "merged"))
       ELSE Commit(HandleSyncError(Pack, t, "ack"))

\* handleSyncError after clearSettingsAfterRun.
SyncErrorCleared(t) ==
    /\ pc[t] \in {"he_save1", "ha_save1"}
    /\ Commit(SaveSettings([Pack EXCEPT !.lastSyncFailed = TRUE,
                                        !.pc[t] = IF pc[t] = "he_save1" THEN "he_save2"
                                                  ELSE "ha_save2"]))

\* handleSyncError returns.  After a failed acknowledgement downloadExport
\* goes on to handleSyncSuccess.
SyncErrorSaved(t) ==
    \/ /\ pc[t] = "he_save2"
       /\ Commit(Finish(Pack, t))
    \/ /\ pc[t] = "ha_save2"
       /\ Commit(HandleSyncSuccess(Pack, t, job[t], "unacked"))

\* handleSyncSuccess after clearSettingsAfterRun.
SyncSuccessCleared(t) ==
    /\ pc[t] = "hs_save1"
    /\ Commit(SaveSettings([Pack EXCEPT !.lastSyncFailed = FALSE,
                                        !.lastSavedStatusID = IF exp[t] # 0 THEN exp[t] ELSE @,
                                        !.pc[t] = "hs_save2"]))

SyncSuccessSaved(t) ==
    /\ pc[t] = "hs_save2"
    /\ Commit(Finish(Pack, t))

\* A refresh response that takes the ids of an accepted request off the queue.
RefreshResponse_Flush(t, r) ==
    /\ pc[t] = "sb_refresh"
    /\ LET S == Pack
           requested == IF ids[t].given THEN ids[t].list ELSE booksToRefresh
       IN CASE r = "ok" -> Commit(QueueExport(RemoveBooksFromRefresh(S, requested), t, "caught"))
            [] r = "notok" /\ ids[t].given ->
                 Commit(SaveSettings([S EXCEPT !.booksToRefresh = Dedupe(@ \o ids[t].list),
                                               !.pc[t] = "sb_save"]))
            [] OTHER -> Commit(Finish(S, t))

\* The refresh request of syncBookHighlights comes back: "ok", "notok" or
\* "throw".  With bookIds undefined the spread in the else branch throws into
\* the catch before booksToRefresh is assigned.
RefreshResponse(t, r) ==
    /\ pc[t] = "sb_refresh"
    /\ LET S == Pack
       IN CASE r = "ok" -> Commit(QueueExport(S, t, "caught"))
            [] r = "notok" /\ ids[t].given ->
                 Commit(SaveSettings([S EXCEPT !.booksToRefresh = Dedupe(@ \o ids[t].list),
                                               !.pc[t] = "sb_save"]))
            [] OTHER -> Commit(Finish(S, t))

RefreshSaved(t) ==
    /\ pc[t] = "sb_save"
    /\ Commit(Finish(Pack, t))

\* ------------------------------------------------------------ specification
\* What data.json holds when the plugin loads.  A job id is only stored while
\* isSyncing and above the last saved one; isSyncing alone is what a crash
\* before the create-export answer leaves.
InitIn(map, vault, dirs, tokens, refresh, onLoad) ==
    /\ isSyncing \in BOOLEAN
    /\ currentSyncStatusID \in JobIds
    /\ lastSavedStatusID = 0
    /\ currentSyncStatusID # 0 => isSyncing /\ currentSyncStatusID = lastSavedStatusID + 1
    /\ lastSyncFailed = FALSE
    /\ booksToRefresh = <<>>
    /\ booksIDsMap = map
    /\ refreshBooks \in refresh
    /\ triggerOnLoad \in onLoad
    /\ frequency = 60
    /\ readwiseDir \in dirs
    /\ token \in tokens
    /\ scheduleInterval = 0
    /\ timers = 0
    /\ files \in vault
    /\ text = [p \in files |-> <<"old">>]
    /\ bootPhase = "pending"
    /\ bootTask = 0
    /\ authPc = "idle"
    /\ attempt = 0
    /\ success = "none"
    /\ polls = 0
    /\ opened = 0
    /\ disk = [ isSyncing |-> isSyncing, currentSyncStatusID |-> currentSyncStatusID,
                booksToRefresh |-> booksToRefresh, booksIDsMap |-> booksIDsMap ]
    /\ messages = <<>>
    /\ currentMessage = NoMessage
    /\ lastMessageTimestamp = 0
    /\ statusBarEl = <<>>
    /\ now = 0
    /\ pc = [t \in Tasks |-> "idle"]
    /\ job = [t \in Tasks |-> 0]
    /\ exp = [t \in Tasks |-> 0]
    /\ via = [t \in Tasks |-> "none"]
    /\ ent = [t \in Tasks |-> NoEntry]
    /\ rem = [t \in Tasks |-> 0]
    /\ ids = [t \in Tasks |-> NoIds]
    /\ call = [t \in Tasks |-> "none"]
    /\ startLast = [t \in Tasks |-> 0]
    /\ fileName = [t \in Tasks |-> NoPath]

\* DEFAULT_SETTINGS.readwiseDir
DefaultDir == <<"Readwise">>

InitWith(map, vault) == InitIn(map, vault, {DefaultDir}, {TRUE}, {TRUE}, {TRUE})

\* The data of an archive entry.
Chunks == {"a", "b"}

Responses == {"throw", "notok", "badjson", "ok"}
DownloadResponses == {"throw", "notok", "badzip", "ok"}
RefreshResponses == {"ok", "notok", "throw"}

\* The export protocol: a vault that never synced, archives without records.
Init == InitWith(<<>>, {{}})

Next ==
    \/ \E t \in Tasks : Startup(t)
    \/ \E t \in Tasks : BootSaved(t)
    \/ \E t \in Tasks : CommandSync(t)
    \/ \E t \in Tasks : ButtonSync(t)
    \/ \E t \in Tasks : TimerTick(t)
    \/ \E t \in Tasks : QueueExportRequest(t)
    \/ \E t \in Tasks, r \in Responses, latest_id \in JobIds : QueueExportResponse(t, r, latest_id)
    \/ \E t \in Tasks, created \in BOOLEAN : QueueExportSaved(t, created)
    \/ \E t \in Tasks, r \in Responses, taskStatus \in TaskStatuses : ExportStatusResponse(t, r, taskStatus)
    \/ \E t \in Tasks : ExportStatusRetry(t)
    \/ \E t \in Tasks, r \in DownloadResponses, n \in 0..MaxEntries, e \in LogEntries :
          DownloadResponse(t, r, n, e)
    \/ \E t \in Tasks, written \in BOOLEAN, e \in LogEntries : EntryWritten(t, written, "a", e)
    \/ \E t \in Tasks, e \in LogEntries : EntrySaved(t, e)
    \/ \E t \in Tasks, ok \in BOOLEAN : AcknowledgeResponse(t, ok)
    \/ \E t \in Tasks : SyncErrorCleared(t)
    \/ \E t \in Tasks : SyncErrorSaved(t)
    \/ \E t \in Tasks : SyncSuccessCleared(t)
    \/ \E t \in Tasks : SyncSuccessSaved(t)

Spec == Init /\ [][Next]_vars

\* The refresh queue: a vault in which the record Foo is tracked, its file
\* there or deleted; the user deletes and reimports files; the exports are
\* empty archives (nothing new on the server).
InitRefresh == InitWith(<<[path |-> FooPath, id |-> 1]>>, SUBSET {FooPath})

NextRefresh ==
    \/ \E t \in Tasks : Startup(t)
    \/ \E t \in Tasks : BootSaved(t)
    \/ \E t \in Tasks : CommandSync(t)
    \/ \E t \in Tasks : ButtonSync(t)
    \/ \E t \in Tasks : TimerTick(t)
    \/ \E t \in Tasks, path \in files : Reimport(t, path)
    \/ \E t \in Tasks : ReimportDeleted(t)
    \/ \E path \in files : UserDelete(path)
    \/ \E t \in Tasks, r \in RefreshResponses : RefreshResponse(t, r)
    \/ \E t \in Tasks : RefreshSaved(t)
    \/ \E t \in Tasks : QueueExportRequest(t)
    \/ \E t \in Tasks, r \in Responses, latest_id \in JobIds : QueueExportResponse(t, r, latest_id)
    \/ \E t \in Tasks, created \in BOOLEAN : QueueExportSaved(t, created)
    \/ \E t \in Tasks, r \in Responses, taskStatus \in TaskStatuses : ExportStatusResponse(t, r, taskStatus)
    \/ \E t \in Tasks : ExportStatusRetry(t)
    \/ \E t \in Tasks, r \in DownloadResponses, e \in RecordEntries :
          DownloadResponse(t, r, 0, e)
    \/ \E t \in Tasks, ok \in BOOLEAN : AcknowledgeResponse(t, ok)
    \/ \E t \in Tasks : SyncErrorCleared(t)
    \/ \E t \in Tasks : SyncErrorSaved(t)
    \/ \E t \in Tasks : SyncSuccessCleared(t)
    \/ \E t \in Tasks : SyncSuccessSaved(t)

SpecRefresh == InitRefresh /\ [][NextRefresh]_vars

\* The merge engine: one call chain at a time, archives with a record.
MergeTasks == {t \in Tasks : \A u \in Tasks : t <= u}

NextMerge ==
    \/ \E t \in MergeTasks : Startup(t)
    \/ \E t \in MergeTasks : BootSaved(t)
    \/ \E t \in MergeTasks : CommandSync(t)
    \/ \E t \in MergeTasks, path \in files : Reimport(t, path)
    \/ \E t \in MergeTasks : ReimportDeleted(t)
    \/ \E path \in files : UserDelete(path)
    \/ \E t \in MergeTasks, r \in RefreshResponses : RefreshResponse(t, r)
    \/ \E t \in MergeTasks : RefreshSaved(t)
    \/ \E t \in MergeTasks : QueueExportRequest(t)
    \/ \E t \in MergeTasks, r \in Responses, latest_id \in JobIds : QueueExportResponse(t, r, latest_id)
    \/ \E t \in MergeTasks, created \in BOOLEAN : QueueExportSaved(t, created)
    \/ \E t \in MergeTasks, r \in Responses, taskStatus \in TaskStatuses : ExportStatusResponse(t, r, taskStatus)
    \/ \E t \in MergeTasks : ExportStatusRetry(t)
    \/ \E t \in MergeTasks, r \in DownloadResponses, n \in 0..MaxEntries, e \in RecordEntries :
          DownloadResponse(t, r, n, e)
    \/ \E t \in MergeTasks, written \in BOOLEAN, contents \in Chunks, e \in RecordEntries :
          EntryWritten(t, written, contents, e)
    \/ \E t \in MergeTasks, e \in RecordEntries : EntrySaved(t, e)
    \/ \E t \in MergeTasks, ok \in BOOLEAN : AcknowledgeResponse(t, ok)
    \/ \E t \in MergeTasks : SyncErrorCleared(t)
    \/ \E t \in MergeTasks : SyncErrorSaved(t)
    \/ \E t \in MergeTasks : SyncSuccessCleared(t)
    \/ \E t \in MergeTasks : SyncSuccessSaved(t)

SpecMerge == Init /\ [][NextMerge]_vars

\* The base directory: the folder the user typed in the settings tab is any
\* text, "--" included; archives hold the sync log and a record.  No sync is
\* started with explicit ids, so no refresh ends in the save of its else
\* branch.
Dirs == {DefaultDir, <<"Notes">>, <<"My", "--", "2Notes">>, <<"My", "--", "Notes">>}

InitDir == InitIn(<<>>, {{}}, Dirs, {TRUE}, {TRUE}, {TRUE})

NextDir ==
    \/ \E t \in MergeTasks : Startup(t)
    \/ \E t \in MergeTasks : BootSaved(t)
    \/ \E t \in MergeTasks : CommandSync(t)
    \/ \E t \in MergeTasks, r \in RefreshResponses : RefreshResponse(t, r)
    \/ \E t \in MergeTasks : QueueExportRequest(t)
    \/ \E t \in MergeTasks, r \in Responses, latest_id \in JobIds : QueueExportResponse(t, r, latest_id)
    \/ \E t \in MergeTasks, created \in BOOLEAN : QueueExportSaved(t, created)
    \/ \E t \in MergeTasks, r \in Responses, taskStatus \in TaskStatuses : ExportStatusResponse(t, r, taskStatus)
    \/ \E t \in MergeTasks : ExportStatusRetry(t)
    \/ \E t \in MergeTasks, r \in DownloadResponses, n \in 0..MaxEntries, e \in RecordEntries :
          DownloadResponse(t, r, n, e)
    \/ \E t \in MergeTasks, written \in BOOLEAN, e \in RecordEntries : EntryWritten(t, written, "a", e)
    \/ \E t \in MergeTasks, e \in RecordEntries : EntrySaved(t, e)
    \/ \E t \in MergeTasks, ok \in BOOLEAN : AcknowledgeResponse(t, ok)
    \/ \E t \in MergeTasks : SyncErrorCleared(t)
    \/ \E t \in MergeTasks : SyncErrorSaved(t)
    \/ \E t \in MergeTasks : SyncSuccessCleared(t)
    \/ \E t \in MergeTasks : SyncSuccessSaved(t)

SpecDir == InitDir /\ [][NextDir]_vars

\* The schedule: the user changes the resync frequency while syncs run; the
\* exports are empty archives.
NextSchedule ==
    \/ \E t \in Tasks : Startup(t)
    \/ \E t \in Tasks : BootSaved(t)
    \/ \E t \in Tasks : CommandSync(t)
    \/ \E t \in Tasks : TimerTick(t)
    \/ \E t \in Tasks, newValue \in Frequencies : SetFrequency(t, newValue)
    \/ \E t \in Tasks : FrequencySaved(t)
    \/ \E t \in Tasks : QueueExportRequest(t)
    \/ \E t \in Tasks, r \in Responses, latest_id \in JobIds : QueueExportResponse(t, r, latest_id)
    \/ \E t \in Tasks, created \in BOOLEAN : QueueExportSaved(t, created)
    \/ \E t \in Tasks, r \in Responses, taskStatus \in TaskStatuses : ExportStatusResponse(t, r, taskStatus)
    \/ \E t \in Tasks : ExportStatusRetry(t)
    \/ \E t \in Tasks, r \in DownloadResponses, e \in LogEntries : DownloadResponse(t, r, 0, e)
    \/ \E t \in Tasks, ok \in BOOLEAN : AcknowledgeResponse(t, ok)
    \/ \E t \in Tasks : SyncErrorCleared(t)
    \/ \E t \in Tasks : SyncErrorSaved(t)
    \/ \E t \in Tasks : SyncSuccessCleared(t)
    \/ \E t \in Tasks : SyncSuccessSaved(t)

SpecSchedule == Init /\ [][NextSchedule]_vars

\* The authorization: no token stored; the user connects, and syncs once a
\* token is there; the exports are empty archives.
InitAuth == InitIn(<<>>, {{}}, {DefaultDir}, {FALSE}, {TRUE}, {TRUE})

NextAuth ==
    \/ \E t \in MergeTasks : Startup(t)
    \/ \E t \in MergeTasks : BootSaved(t)
    \/ \E t \in MergeTasks : CommandSync(t)
    \/ \E t \in MergeTasks : TimerTick(t)
    \/ Connect
    \/ \E r \in AuthResponses : AuthResponse(r)
    \/ AuthTokenSaved
    \/ AuthRetry
    \/ AuthSaved
    \/ \E t \in MergeTasks : QueueExportRequest(t)
    \/ \E t \in MergeTasks, r \in Responses, latest_id \in JobIds : QueueExportResponse(t, r, latest_id)
    \/ \E t \in MergeTasks, created \in BOOLEAN : QueueExportSaved(t, created)
    \/ \E t \in MergeTasks, r \in Responses, taskStatus \in TaskStatuses : ExportStatusResponse(t, r, taskStatus)
    \/ \E t \in MergeTasks : ExportStatusRetry(t)
    \/ \E t \in MergeTasks, r \in DownloadResponses, e \in LogEntries : DownloadResponse(t, r, 0, e)
    \/ \E t \in MergeTasks, ok \in BOOLEAN : AcknowledgeResponse(t, ok)
    \/ \E t \in MergeTasks : SyncErrorCleared(t)
    \/ \E t \in MergeTasks : SyncErrorSaved(t)
    \/ \E t \in MergeTasks : SyncSuccessCleared(t)
    \/ \E t \in MergeTasks : SyncSuccessSaved(t)

SpecAuth == InitAuth /\ [][NextAuth]_vars

\* Progress: one call chain at a time.  Every request is answered and every
\* timeout and save completes (weak fairness of each continuation); the
\* remote job does not stay in a waiting status for ever (strong fairness of
\* the answers that are not "ok" with a waiting status).  What the user does
\* (the command) is under no fairness.
NextLive ==
    \/ \E t \in MergeTasks : Startup(t)
    \/ \E t \in MergeTasks : BootSaved(t)
    \/ \E t \in MergeTasks : CommandSync(t)
    \/ \E t \in MergeTasks : QueueExportRequest(t)
    \/ \E t \in MergeTasks, r \in Responses, latest_id \in JobIds : QueueExportResponse(t, r, latest_id)
    \/ \E t \in MergeTasks, created \in BOOLEAN : QueueExportSaved(t, created)
    \/ \E t \in MergeTasks, r \in Responses, taskStatus \in TaskStatuses : ExportStatusResponse(t, r, taskStatus)
    \/ \E t \in MergeTasks : ExportStatusRetry(t)
    \/ \E t \in MergeTasks, r \in DownloadResponses, n \in 0..MaxEntries, e \in LogEntries :
          DownloadResponse(t, r, n, e)
    \/ \E t \in MergeTasks, written \in BOOLEAN, e \in LogEntries : EntryWritten(t, written, "a", e)
    \/ \E t \in MergeTasks, e \in LogEntries : EntrySaved(t, e)
    \/ \E t \in MergeTasks, ok \in BOOLEAN : AcknowledgeResponse(t, ok)
    \/ \E t \in MergeTasks : SyncErrorCleared(t)
    \/ \E t \in MergeTasks : SyncErrorSaved(t)
    \/ \E t \in MergeTasks : SyncSuccessCleared(t)
    \/ \E t \in MergeTasks : SyncSuccessSaved(t)

\* A status poll is answered with something else than a waiting status.
ExportStatusSettled(t) ==
    \E r \in Responses, taskStatus \in TaskStatuses :
        /\ r # "ok" \/ Classify(taskStatus) # "waiting"
        /\ ExportStatusResponse(t, r, taskStatus)

Fairness ==
    \A t \in MergeTasks :
        /\ WF_vars(Startup(t))
        /\ WF_vars(BootSaved(t))
        /\ WF_vars(QueueExportRequest(t))
        /\ WF_vars(\E r \in Responses, latest_id \in JobIds : QueueExportResponse(t, r, latest_id))
        /\ WF_vars(\E created \in BOOLEAN : QueueExportSaved(t, created))
        /\ WF_vars(\E r \in Responses, taskStatus \in TaskStatuses : ExportStatusResponse(t, r, taskStatus))
        /\ SF_vars(ExportStatusSettled(t))
        /\ WF_vars(ExportStatusRetry(t))
        /\ WF_vars(\E r \in DownloadResponses, n \in 0..MaxEntries, e \in LogEntries :
                      DownloadResponse(t, r, n, e))
        /\ WF_vars(\E written \in BOOLEAN, e \in LogEntries : EntryWritten(t, written, "a", e))
        /\ WF_vars(\E e \in LogEntries : EntrySaved(t, e))
        /\ WF_vars(\E ok \in BOOLEAN : AcknowledgeResponse(t, ok))
        /\ WF_vars(SyncErrorCleared(t))
        /\ WF_vars(SyncErrorSaved(t))
        /\ WF_vars(SyncSuccessCleared(t))
        /\ WF_vars(SyncSuccessSaved(t))

SpecLive == Init /\ [][NextLive]_vars /\ Fairness

\* The vault's events: two tracked records, Foo and Bar, whose files the user
\* renames and deletes between the syncs of one call chain; the exports are
\* empty archives.
InitVault ==
    InitWith(<<[path |-> FooPath, id |-> 1], [path |-> BarPath, id |-> 2]>>,
             {{FooPath, BarPath}})

NextVault ==
    \/ \E t \in MergeTasks : Startup(t)
    \/ \E t \in MergeTasks : BootSaved(t)
    \/ \E t \in MergeTasks : CommandSync(t)
    \/ \E t \in MergeTasks : ButtonSync(t)
    \/ \E t \in MergeTasks : TimerTick(t)
    \/ \E path \in files : UserDelete(path)
    \/ \E oldPath \in files, newPath \in RenameTargets : UserRename(oldPath, newPath)
    \/ \E t \in MergeTasks, r \in RefreshResponses : RefreshResponse(t, r)
    \/ \E t \in MergeTasks : QueueExportRequest(t)
    \/ \E t \in MergeTasks, r \in Responses, latest_id \in JobIds : QueueExportResponse(t, r, latest_id)
    \/ \E t \in MergeTasks, created \in BOOLEAN : QueueExportSaved(t, created)
    \/ \E t \in MergeTasks, r \in Responses, taskStatus \in TaskStatuses : ExportStatusResponse(t, r, taskStatus)
    \/ \E t \in MergeTasks : ExportStatusRetry(t)
    \/ \E t \in MergeTasks, r \in DownloadResponses, e \in RecordEntries :
          DownloadResponse(t, r, 0, e)
    \/ \E t \in MergeTasks, ok \in BOOLEAN : AcknowledgeResponse(t, ok)
    \/ \E t \in MergeTasks : SyncErrorCleared(t)
    \/ \E t \in MergeTasks : SyncErrorSaved(t)
    \/ \E t \in MergeTasks : SyncSuccessCleared(t)
    \/ \E t \in MergeTasks : SyncSuccessSaved(t)

SpecVault == InitVault /\ [][NextVault]_vars

\* The status bar by itself: notices, the display interval, the clock.
NextStatus ==
    \/ \E message \in Texts, timeout \in Timeouts, forcing \in BOOLEAN :
          Notice(message, timeout, forcing)
    \/ DisplayTick
    \/ ClockTick

SpecStatus == Init /\ [][NextStatus]_vars

\* The vault's events again: the record Foo is tracked, the file Bar is the
\* user's own; "Resync deleted files" is on or off.
InitEvents ==
    InitIn(<<[path |-> FooPath, id |-> 1]>>, {{FooPath, BarPath}}, {DefaultDir}, {TRUE}, BOOLEAN,
           {TRUE})

SpecEvents == InitEvents /\ [][NextVault]_vars

\* The startup: "Sync on startup" on or off, a token stored or not, the
\* record Foo tracked with its file there or gone; the user may run the
\* command while the callback is at work; the exports are empty archives.
InitBoot ==
    InitIn(<<[path |-> FooPath, id |-> 1]>>, SUBSET {FooPath}, {DefaultDir}, BOOLEAN, {TRUE},
           BOOLEAN)

NextBoot ==
    \/ \E t \in Tasks : Startup(t)
    \/ \E t \in Tasks : BootSaved(t)
    \/ \E t \in Tasks : CommandSync(t)
    \/ \E t \in Tasks, r \in RefreshResponses : RefreshResponse(t, r)
    \/ \E t \in Tasks : QueueExportRequest(t)
    \/ \E t \in Tasks, r \in Responses, latest_id \in JobIds : QueueExportResponse(t, r, latest_id)
    \/ \E t \in Tasks, created \in BOOLEAN : QueueExportSaved(t, created)
    \/ \E t \in Tasks, r \in Responses, taskStatus \in TaskStatuses : ExportStatusResponse(t, r, taskStatus)
    \/ \E t \in Tasks : ExportStatusRetry(t)
    \/ \E t \in Tasks, r \in DownloadResponses, e \in LogEntries : DownloadResponse(t, r, 0, e)
    \/ \E t \in Tasks, ok \in BOOLEAN : AcknowledgeResponse(t, ok)
    \/ \E t \in Tasks : SyncErrorCleared(t)
    \/ \E t \in Tasks : SyncErrorSaved(t)
    \/ \E t \in Tasks : SyncSuccessCleared(t)
    \/ \E t \in Tasks : SyncSuccessSaved(t)

SpecBoot == InitBoot /\ [][NextBoot]_vars


\* ------------------------------------------------------------------ claims
\* Task t is inside a sync cycle: past the isSyncing check of queueExport (or
\* resumed at startup) and not yet back from its success or error handler.
InCycle(t) ==
    pc[t] \in {"qe_pre", "qe_fetch", "qe_savecur", "ge_fetch", "ge_sleep", "dl_fetch",
               "mg_fs", "mg_save", "ack_wait",
               "he_save1", "he_save2", "ha_save1", "ha_save2", "hs_save1", "hs_save2"}

\* Task t has a create-export request out, or is writing an entry's file.
Acting(t) == pc[t] \in {"qe_fetch", "mg_fs"}

\* Task t is between storing currentSyncStatusID and its terminal transition.
Polling(t) ==
    pc[t] \in {"qe_savecur", "ge_fetch", "ge_sleep", "dl_fetch", "mg_fs", "mg_save", "ack_wait"}

Quiescent == bootPhase # "pending" /\ \A t \in Tasks : pc[t] = "idle"

\* C1: at most one sync cycle is in flight: while a cycle has not finished
\* its terminal transition (its handlers included), no other cycle has a
\* create-export request out or writes files.
C1_OneCycleInFlight ==
    \A t1 \in Tasks, t2 \in Tasks : t1 # t2 /\ InCycle(t1) => ~Acting(t2)

\* C2: a sync started (command, tick, reimport) while isSyncing is true
\* changes no settings field and does not get to the create-export request.
C2_RejectedStartChangesNothing ==
    [][\A t \in Tasks :
          isSyncing /\ (CommandSync(t) \/ TimerTick(t) \/ ReimportDeleted(t))
          => /\ UNCHANGED << isSyncing, currentSyncStatusID, lastSavedStatusID,
                             lastSyncFailed, booksToRefresh, booksIDsMap >>
             /\ pc'[t] \notin {"qe_pre", "qe_fetch"}]_vars

\* C3: lastSavedStatusID never decreases.
C3_LastSavedNeverDecreases ==
    [][lastSavedStatusID' >= lastSavedStatusID]_vars

\* C4: currentSyncStatusID is non-zero exactly while a poll/download cycle is
\* in progress (or waits to be resumed at startup), and it is 0 when a cycle
\* has made its terminal transition.
C4_CurrentJobIffInProgress ==
    /\ bootPhase # "pending" =>
          (currentSyncStatusID # 0 <=> \E t \in Tasks : Polling(t))
    /\ \A t \in Tasks : pc[t] \in {"he_save2", "hs_save2"} => currentSyncStatusID = 0

\* C5: however a started cycle fails, isSyncing is false once it is over: when
\* no call chain is running any more, the flag is clear.
C5_FailureClearsIsSyncing ==
    Quiescent => ~isSyncing

\* C6: when a cycle has ended on the failure path, isSyncing is false,
\* currentSyncStatusID is 0, lastSyncFailed is true and lastSavedStatusID is
\* what it was when the cycle started.
C6_FailureState ==
    \A t \in Tasks :
        pc[t] = "he_save2"
        => /\ ~isSyncing
           /\ currentSyncStatusID = 0
           /\ lastSyncFailed
           /\ lastSavedStatusID = startLast[t]

\* C7: when a cycle has downloaded and merged the archive of job J, its
\* terminal state has isSyncing false, currentSyncStatusID 0, lastSyncFailed
\* false and lastSavedStatusID = J.
C7_MergedState ==
    \A t \in Tasks :
        pc[t] = "hs_save2" /\ via[t] \in {"merged", "unacked"}
        => /\ ~isSyncing
           /\ currentSyncStatusID = 0
           /\ ~lastSyncFailed
           /\ lastSavedStatusID = job[t]

\* C8: downloadExport invoked with an id J <= lastSavedStatusID issues no
\* download request and writes no file; it goes straight to handleSyncSuccess
\* without an export id, which reports success and leaves lastSavedStatusID,
\* booksIDsMap and booksToRefresh as they are.
C8_SavedExportSkipsDownload ==
    [][\A t \in Tasks :
          /\ (pc[t] # "dl_fetch" /\ pc'[t] = "dl_fetch" => job'[t] > lastSavedStatusID)
          /\ (job[t] <= lastSavedStatusID
                 /\ (\E st \in SUCCESS_STATUSES : ExportStatusResponse(t, "ok", st))
              => /\ pc'[t] = "hs_save1" /\ via'[t] = "skip" /\ exp'[t] = 0
                 /\ UNCHANGED << lastSavedStatusID, booksIDsMap, booksToRefresh, files >>)
          /\ (via[t] = "skip" /\ pc[t] = "hs_save1" /\ pc'[t] # pc[t]
              => /\ pc'[t] = "hs_save2"
                 /\ ~lastSyncFailed'
                 /\ UNCHANGED << lastSavedStatusID, booksIDsMap, booksToRefresh, files >>)]_vars

\* C8 witness: a poll of job J >= 1 answered SUCCESS found J already saved and
\* its success handler has run.
C8_Witness ==
    \E t \in Tasks : via[t] = "skip" /\ pc[t] = "hs_save2" /\ job[t] >= 1

\* C9: when create-export returns an id <= lastSavedStatusID the cycle goes
\* straight to success: it never polls or downloads, never stores the id in
\* currentSyncStatusID, leaves lastSavedStatusID alone, and when it has ended
\* isSyncing is false.
C9_StaleJobShortCircuit ==
    \A t \in Tasks :
        via[t] = "stale"
        => /\ pc[t] \in {"hs_save1", "hs_save2"}
           /\ job[t] = 0
           /\ exp[t] = 0
           /\ (pc[t] = "hs_save2" => ~isSyncing /\ lastSavedStatusID = startLast[t])

\* C10: a failure on one archive entry never aborts the archive: the merge
\* goes on to the next entry or to the acknowledgement, the id of an entry
\* whose write failed is queued in booksToRefresh, and the merged cycle sets
\* lastSavedStatusID to the job id.
C10_EntryFailureIsolated ==
    [][\A t \in Tasks :
          /\ (pc[t] \in {"mg_fs", "mg_save"} => pc'[t] \in {"mg_fs", "mg_save", "ack_wait"})
          /\ ((\E e \in RecordEntries : EntryWritten(t, FALSE, "a", e))
                 /\ BookID(ProcessedFileName(ent[t], readwiseDir)) # 0
              => Contains(booksToRefresh', BookID(ProcessedFileName(ent[t], readwiseDir))))
          /\ (pc[t] = "hs_save1" /\ via[t] \in {"merged", "unacked"} /\ pc'[t] # pc[t]
              => lastSavedStatusID' = job[t])]_vars

\* The ids of a refresh request in flight: the bookIds passed in, or the
\* array settings.booksToRefresh itself.
RequestIds(t) == IF ids[t].given THEN ids[t].list ELSE booksToRefresh

\* C11: booksToRefresh never holds the same record id twice.
C11_NoDuplicateIds ==
    \A i \in 1..Len(booksToRefresh), j \in 1..Len(booksToRefresh) :
        booksToRefresh[i] = booksToRefresh[j] => i = j

\* C12: when a refresh request fails (non-2xx answer or transport failure),
\* every id of the request is in booksToRefresh afterwards, whether the ids
\* were the queue's own or passed in explicitly.
C12_FailedRefreshKeepsIds ==
    [][\A t \in Tasks :
          (\E r \in {"notok", "throw"} : RefreshResponse(t, r))
          => \A i \in 1..Len(RequestIds(t)) : Contains(booksToRefresh', RequestIds(t)[i])]_vars

\* C13 as stated: an accepted refresh request (2xx) takes exactly the ids of
\* the request off booksToRefresh: none of them remains, no other id goes.
C13_AcceptedRefreshRemovesIds ==
    [][\A t \in Tasks :
          RefreshResponse(t, "ok")
          => /\ \A i \in 1..Len(RequestIds(t)) : ~Contains(booksToRefresh', RequestIds(t)[i])
             /\ \A j \in 1..Len(booksToRefresh) :
                   ~Contains(RequestIds(t), booksToRefresh[j])
                   => Contains(booksToRefresh', booksToRefresh[j])]_vars

\* C13 amended: an accepted refresh request leaves booksToRefresh as it is,
\* and an id leaves booksToRefresh only in the step in which the merge has
\* written the file of the entry with that id.
C13_AcceptedRefreshKeepsQueue ==
    [][/\ \A t \in Tasks : RefreshResponse(t, "ok") => booksToRefresh' = booksToRefresh
       /\ \A j \in 1..Len(booksToRefresh) :
             ~Contains(booksToRefresh', booksToRefresh[j])
             => \E t \in Tasks :
                   /\ pc[t] = "mg_fs" /\ pc'[t] = "mg_save"
                   /\ BookID(ProcessedFileName(ent[t], readwiseDir)) = booksToRefresh[j]
                   /\ OriginalName(ProcessedFileName(ent[t], readwiseDir)) \in files']_vars

\* C13 witness: a refresh request for queued ids was accepted and the cycle
\* went on to the create-export request with the ids still queued.
C13_Witness ==
    \E t \in Tasks : pc[t] = "qe_pre" /\ call[t] = "caught" /\ booksToRefresh # <<>>

\* C14: a rename oldPath -> newPath of a tracked path moves the entry: the new
\* path maps to the old path's id, the old path has no entry, every other
\* entry is as before.
C14_RenameMovesEntry ==
    [][\A oldPath \in files, newPath \in RenameTargets :
          UserRename(oldPath, newPath) /\ MapHas(booksIDsMap, oldPath)
          => /\ MapValue(booksIDsMap', newPath) = MapValue(booksIDsMap, oldPath)
             /\ ~MapHas(booksIDsMap', oldPath)
             /\ \A i \in 1..Len(booksIDsMap) :
                   booksIDsMap[i].path \notin {oldPath, newPath}
                   => /\ MapHas(booksIDsMap', booksIDsMap[i].path)
                      /\ MapValue(booksIDsMap', booksIDsMap[i].path) = booksIDsMap[i].id
             /\ \A i \in 1..Len(booksIDsMap') :
                   booksIDsMap'[i].path # newPath => MapHas(booksIDsMap, booksIDsMap'[i].path)]_vars

\* C14 witness: a tracked file was renamed while another path was tracked:
\* the new path is tracked, the old one is not.
C14_Witness ==
    /\ MapValue(booksIDsMap, BazPath) = 1
    /\ MapValue(booksIDsMap, BarPath) = 2
    /\ ~MapHas(booksIDsMap, FooPath)

C16_MergeAppends ==
    [][\A t \in Tasks :
          pc[t] = "mg_fs" /\ pc'[t] # "mg_fs" /\ << files, text >> # << files', text' >>
          => LET target == OriginalName(ProcessedFileName(ent[t], readwiseDir))
             IN /\ target \in files'
                /\ \E contents \in Chunks :
                      text'[target] = IF target \in files
                                      THEN text[target] \o <<contents>>
                                      ELSE <<contents>>
                /\ \A p \in files : p # target => p \in files' /\ text'[p] = text[p]]_vars

\* C16 witness: a file holds what an earlier merge wrote, with a later
\* entry's content after it.
C16_Witness ==
    \E p \in files : Len(text[p]) = 2 /\ text[p][1] \in Chunks /\ text[p][2] \in Chunks

\* The path the entry named e belongs at under the base directory dir: the
\* root segment replaced, the "--<digits>" suffix removed and ".md" put back.
ExpectedPath(e, dir) ==
    IF HasDelimiter(e)
    THEN dir \o SubSeq(e, 2, LastDelimiter(e) - 1) \o <<".md">>
    ELSE dir \o Tail(e)

\* The digits after the delimiter of the entry named e.
ExpectedId(e) == PieceDigits(e[LastDelimiter(e) + 1])

\* The task t takes up an entry of the archive.
BeginsEntry(t) == pc'[t] = "mg_fs" /\ (pc[t] = "dl_fetch" \/ rem'[t] = rem[t] - 1)

\* C17: an entry <root>/<path>--<digits>.<ext> is tracked as
\* pathToRecordId[baseDirectory/<path>.md] = <digits> and written at that
\* path; an entry without "--" adds nothing to pathToRecordId and is written
\* at its name with the root segment replaced by baseDirectory.
C17_EntryPathAndId ==
    [][\A t \in Tasks :
          /\ BeginsEntry(t)
             => IF HasDelimiter(ent'[t])
                THEN MapValue(booksIDsMap', ExpectedPath(ent'[t], readwiseDir)) = ExpectedId(ent'[t])
                ELSE booksIDsMap' = booksIDsMap
          /\ pc[t] = "mg_fs" /\ << files, text >> # << files', text' >>
             => LET target == ExpectedPath(ent[t], readwiseDir)
                IN /\ target \in files'
                   /\ \A p \in files' : p # target => p \in files /\ text'[p] = text[p]]_vars

\* The job resumed by the onLayoutReady callback has not reached a handler.
ResumedInProgress ==
    /\ bootPhase = "resume"
    /\ bootTask \in Tasks
    /\ pc[bootTask] \in {"ge_fetch", "ge_sleep", "dl_fetch", "mg_fs", "mg_save", "ack_wait"}

\* A create-export request is being prepared or is in flight.
CreateExportIssued == \E u \in Tasks : pc[u] \in {"qe_pre", "qe_fetch"}

\* C18: at startup with isSyncing and a job id stored, the callback polls
\* that job id, and until the job reaches a handler the id polled stays the
\* stored one and no create-export request is issued; with isSyncing and no
\* job id stored, isSyncing is reset and saved, the callback waiting on the
\* save and on no request.
C18_StartupRecovery ==
    /\ [](ResumedInProgress
            => /\ ~CreateExportIssued
               /\ isSyncing
               /\ job[bootTask] = currentSyncStatusID
               /\ job[bootTask] # 0)
    /\ [][bootPhase = "pending" /\ bootPhase' # "pending"
            => IF isSyncing /\ currentSyncStatusID # 0
               THEN /\ ResumedInProgress'
                    /\ pc'[bootTask'] = "ge_fetch"
                    /\ job'[bootTask'] = currentSyncStatusID
                    /\ UNCHANGED << isSyncing, currentSyncStatusID >>
               ELSE /\ ~isSyncing'
                    /\ pc'[bootTask'] = "boot_save"
                    /\ \A u \in Tasks : u # bootTask' => pc'[u] = pc[u]]_vars
    /\ [][ResumedInProgress /\ ResumedInProgress'
            => job'[bootTask'] = job[bootTask]]_vars

\* C18 witness: the resumed job was polled, answered "not ready yet", and is
\* about to be polled again.
C18_Witness ==
    /\ ResumedInProgress
    /\ pc[bootTask] = "ge_sleep"
    /\ job[bootTask] = currentSyncStatusID

\* C19: at most one repeating sync timer is installed, the one
\* scheduleInterval refers to; each configureSchedule called from the
\* frequency dropdown leaves exactly one timer when the frequency is not 0
\* and none when it is 0 (manual).
C19_AtMostOneTimer ==
    /\ [](timers <= 1 /\ (timers = 1 <=> scheduleInterval # 0))
    /\ [][\A t \in Tasks :
             pc[t] = "fq_save" /\ pc'[t] # "fq_save"
             => timers' = IF frequency = 0 THEN 0 ELSE 1]_vars

\* C19 witness: the frequency was changed to another interval after the
\* start-up had run, and one timer is installed.
C19_Witness ==
    /\ bootPhase = "done"
    /\ \A t \in Tasks : pc[t] = "idle"
    /\ frequency = 720
    /\ timers = 1

\* C20: the Connect button gets success from getUserAuthToken only when a
\* token was returned and stored; after a failed poll or the attempt limit
\* it gets a failure and the token is still unset.
C20_SuccessOnlyWithToken ==
    /\ success = "true" => token
    /\ success \in {"undefined", "rejected"} => ~token

\* C21: one call of the Connect button polls /api/auth at most 20 times,
\* the server never returning a token included, and opens the authorization
\* page once, with the first poll.
C21_AtMostTwentyPolls ==
    /\ polls <= AttemptLimit
    /\ opened <= 1
    /\ polls > 0 => opened = 1

\* The task t is in a sync cycle that has not reached a handler.
CycleRunning(t) ==
    pc[t] \in {"qe_pre", "qe_fetch", "qe_savecur", "ge_fetch", "ge_sleep", "dl_fetch",
               "mg_fs", "mg_save", "ack_wait"}

\* The task t has just entered handleSyncError or handleSyncSuccess.
TerminalTransition(t) == pc[t] \in {"he_save1", "ha_save1", "hs_save1"}

\* C22: with every request answered and the job not waiting for ever, every
\* started sync cycle reaches a terminal transition, with isSyncing false.
C22_CycleTerminates ==
    \A t \in Tasks : CycleRunning(t) ~> (TerminalTransition(t) /\ ~isSyncing)

\* The ids of the tracked paths that have no file, and the ids queued.
MissingSet == {booksIDsMap[i].id : i \in {j \in 1..Len(booksIDsMap) : booksIDsMap[j].path \notin files}}
QueuedSet == {booksToRefresh[i] : i \in 1..Len(booksToRefresh)}

\* C23: with refreshBooks on and a token set, a sync started without explicit
\* ids sends a refresh request whose ids are exactly the ids of the tracked
\* paths whose file is missing and the ids queued in booksToRefresh (no
\* request when there is none of either), and it asks for the export only
\* after that request.
C23_RefreshRequestIds ==
    [][\A t \in Tasks :
          /\ pc[t] # "sb_refresh" /\ pc'[t] = "sb_refresh" /\ ~ids'[t].given /\ refreshBooks
             => {booksToRefresh'[i] : i \in 1..Len(booksToRefresh')} = MissingSet \cup QueuedSet
          /\ (CommandSync(t) \/ ButtonSync(t) \/ TimerTick(t)) /\ refreshBooks /\ token
             => (MissingSet \cup QueuedSet # {} <=> pc'[t] = "sb_refresh" /\ ~ids'[t].given)
          /\ pc[t] # "qe_pre" /\ pc'[t] = "qe_pre" /\ refreshBooks
             => pc[t] = "sb_refresh" \/ MissingSet \cup QueuedSet = {}]_vars

\* C23 witness: the refresh request of a sync started without ids is in
\* flight with two different ids.
C23_Witness ==
    \E t \in Tasks :
        /\ pc[t] = "sb_refresh"
        /\ ~ids[t].given
        /\ Len(booksToRefresh) = 2
        /\ booksToRefresh[1] # booksToRefresh[2]

\* C24: an answered status poll has one of three outcomes.  PENDING,
\* RECEIVED, STARTED and RETRY: the one second delay, then another poll of
\* the same job id.  SUCCESS: downloadExport of that job id (which fetches the
\* archive unless the export is already saved).  Every other status, a
\* missing one included: handleSyncError, with no poll and no download.
C24_ThreeBuckets ==
    [][\A t \in Tasks :
          /\ \A taskStatus \in TaskStatuses :
                ExportStatusResponse(t, "ok", taskStatus)
                => CASE taskStatus \in {"PENDING", "RECEIVED", "STARTED", "RETRY"} ->
                          pc'[t] = "ge_sleep" /\ job'[t] = job[t]
                     [] taskStatus = "SUCCESS" ->
                          \/ pc'[t] = "dl_fetch" /\ job'[t] = job[t]
                          \/ job[t] <= lastSavedStatusID /\ pc'[t] = "hs_save1" /\ via'[t] = "skip"
                     [] OTHER -> pc'[t] = "he_save1"
          /\ pc[t] = "ge_sleep" /\ pc'[t] # "ge_sleep"
             => pc'[t] = "ge_fetch" /\ job'[t] = job[t]
          /\ pc[t] = "he_save1" => pc'[t] \notin {"ge_fetch", "ge_sleep", "dl_fetch"}]_vars

\* C24 witness: a poll answered SUCCESS has led to the download of its job.
C24_Witness == \E t \in Tasks : pc[t] = "dl_fetch" /\ job[t] # 0 /\ job[t] > lastSavedStatusID

\* C25: a status poll that fails in transport or is answered non-2xx takes
\* the cycle to handleSyncError, and from there the call chain sends no
\* status poll and no download for that job.
C25_PollFailureEndsCycle ==
    [][\A t \in Tasks :
          /\ \A r \in {"throw", "notok"}, taskStatus \in TaskStatuses :
                ExportStatusResponse(t, r, taskStatus)
                => pc'[t] = "he_save1" /\ ~isSyncing' /\ currentSyncStatusID' = 0
          /\ pc[t] \in {"he_save1", "he_save2"}
             => pc'[t] \notin {"ge_fetch", "ge_sleep", "dl_fetch"}]_vars

\* C25 witness: the job resumed at start-up was polled and the cycle is in
\* handleSyncError.
C25_Witness ==
    /\ bootPhase = "resume"
    /\ bootTask \in Tasks
    /\ pc[bootTask] = "he_save1"
    /\ job[bootTask] # 0
    /\ ~isSyncing

\* C26: a sync_ack that fails after the archive of job J was merged rolls
\* nothing back: the failed acknowledgement and its handleSyncError leave the
\* vault and booksIDsMap as merged, handleSyncSuccess follows with J, and the
\* cycle ends with lastSavedStatusID = J, isSyncing false,
\* currentSyncStatusID 0 and lastSyncFailed false.
C26_FailedAckKeepsSync ==
    /\ [](\A t \in Tasks :
             pc[t] = "hs_save2" /\ via[t] = "unacked"
             => /\ lastSavedStatusID = job[t]
                /\ ~isSyncing
                /\ currentSyncStatusID = 0
                /\ ~lastSyncFailed)
    /\ [][\A t \in Tasks :
             /\ pc[t] = "ack_wait" /\ pc'[t] # pc[t]
                => pc'[t] \in {"ha_save1", "hs_save1"}
             /\ (pc[t] \in {"ack_wait", "ha_save1", "ha_save2"}
                    \/ (pc[t] = "hs_save1" /\ via[t] = "unacked")) /\ pc'[t] # pc[t]
                => UNCHANGED << files, text, booksIDsMap >>
             /\ pc[t] = "ha_save2" /\ pc'[t] # pc[t]
                => pc'[t] = "hs_save1" /\ exp'[t] = job[t] /\ job'[t] = job[t]]_vars

\* C27: after a create-export answer with a job id above lastSavedStatusID,
\* HTTP 201 takes the cycle to the polling of that id; any other 2xx ends the
\* cycle in handleSyncSuccess with that id, without status poll or download,
\* and lastSavedStatusID becomes that id.
C27_CreatedOrAlreadyDone ==
    [][\A t \in Tasks :
          /\ QueueExportSaved(t, TRUE) /\ job[t] > lastSavedStatusID
             => pc'[t] = "ge_fetch" /\ job'[t] = job[t]
          /\ QueueExportSaved(t, FALSE) /\ job[t] > lastSavedStatusID
             => pc'[t] = "hs_save1" /\ via'[t] = "other" /\ exp'[t] = job[t]
          /\ pc[t] \in {"hs_save1", "hs_save2"} /\ via[t] = "other" /\ pc'[t] # pc[t]
             => /\ pc'[t] \notin {"ge_fetch", "ge_sleep", "dl_fetch"}
                /\ pc[t] = "hs_save1" => lastSavedStatusID' = exp[t]]_vars

\* C28: every key of booksIDsMap is a path the merge has written; an entry
\* whose write failed adds no key.  (Stated for a vault that starts empty and
\* in which nothing is deleted or renamed: the paths written are the files
\* of the vault.  The key of an entry whose write is still under way is left
\* out.)
C28_KeysWereWritten ==
    (\A t \in Tasks : pc[t] # "mg_fs")
    => \A i \in 1..Len(booksIDsMap) : booksIDsMap[i].path \in files

\* C28 amended: a key of booksIDsMap is recorded when the merge takes up an
\* entry that carries a record id, for the path that entry is written to,
\* and nothing else adds a key; when the write of such an entry fails the
\* key stays and the record id is queued in booksToRefresh.
C28_KeysAreTakenUp ==
    [][/\ booksIDsMap' # booksIDsMap
          => \E t \in Tasks :
                /\ BeginsEntry(t)
                /\ LET p == ProcessedFileName(ent'[t], readwiseDir)
                   IN /\ HasDelimiter(p)
                      /\ booksIDsMap' = MapSet(booksIDsMap, OriginalName(p), BookID(p))
       /\ \A t \in Tasks :
             LET p == ProcessedFileName(ent[t], readwiseDir)
             IN pc[t] = "mg_fs" /\ pc'[t] = "mg_save" /\ UNCHANGED << files, text >>
                   /\ HasDelimiter(p)
                => /\ MapValue(booksIDsMap', OriginalName(p)) = BookID(p)
                   /\ Contains(booksToRefresh', BookID(p))]_vars

\* C28 witness: the write of a tracked entry has failed: its key has no file
\* and its id is queued.
C28_Witness ==
    \E t \in Tasks :
        /\ pc[t] = "mg_save"
        /\ \E i \in 1..Len(booksIDsMap) :
              /\ booksIDsMap[i].path \notin files
              /\ Contains(booksToRefresh, booksIDsMap[i].id)

\* C29: when an entry with record id r has been written, its path tracked
\* in booksIDsMap, booksToRefresh holds no r, whatever it held before.
C29_MergedIdLeavesQueue ==
    [][\A t \in Tasks :
          LET p == ProcessedFileName(ent[t], readwiseDir)
          IN pc[t] = "mg_fs" /\ pc'[t] # "mg_fs" /\ << files, text >> # << files', text' >>
                /\ BookID(p) # 0
             => /\ OriginalName(p) \in files'
                /\ MapValue(booksIDsMap', OriginalName(p)) = BookID(p)
                /\ ~Contains(booksToRefresh', BookID(p))]_vars

\* C29 witness: an entry with a record id has just been written, and its id
\* is not queued.
C29_Witness ==
    \E t \in Tasks :
        LET p == ProcessedFileName(ent[t], readwiseDir)
        IN /\ pc[t] = "mg_save"
           /\ BookID(p) # 0
           /\ OriginalName(p) \in files
           /\ Len(text[OriginalName(p)]) = 1
           /\ text[OriginalName(p)][1] \in Chunks
           /\ ~Contains(booksToRefresh, BookID(p))

\* C30: within one call chain the steps of a cycle follow one another: the
\* create-export answer before the first status poll, the last status poll
\* before the download, the download before any file write, and the entries
\* one at a time, the next entry taken up only when the one before is over.
C30_StrictOrder ==
    [][/\ \A t \in Tasks :
             pc'[t] # pc[t]
             => /\ pc'[t] = "qe_fetch" => pc[t] = "qe_pre"
                /\ pc'[t] = "qe_savecur" => pc[t] = "qe_fetch"
                /\ pc'[t] = "ge_fetch"
                   => pc[t] \in {"qe_savecur", "ge_sleep"}
                         \/ (pc[t] = "idle" /\ bootPhase = "pending")
                /\ pc'[t] = "ge_sleep" => pc[t] = "ge_fetch"
                /\ pc'[t] = "dl_fetch" => pc[t] = "ge_fetch"
                /\ pc'[t] = "mg_fs" => pc[t] \in {"dl_fetch", "mg_save"}
                /\ pc'[t] = "mg_save" => pc[t] = "mg_fs"
                /\ pc'[t] = "ack_wait" => pc[t] \in {"dl_fetch", "mg_fs", "mg_save"}
       /\ \A t \in Tasks :
             pc[t] \in {"mg_fs", "mg_save"} /\ pc'[t] = "mg_fs"
                /\ << ent[t], rem[t], pc[t] >> # << ent'[t], rem'[t], pc'[t] >>
             => rem'[t] = rem[t] - 1
       /\ \A t \in Tasks : pc[t] = "mg_fs" /\ pc'[t] = "ack_wait" => rem[t] = 0
       /\ \A p \in files' :
             p \notin files \/ text'[p] # text[p]
             => \E t \in Tasks :
                   /\ pc[t] = "mg_fs"
                   /\ p = OriginalName(ProcessedFileName(ent[t], readwiseDir))]_vars

\* C30 witness: the first entry of an archive has been written and the
\* second and last one is being merged.
C30_Witness ==
    \E t \in Tasks :
        /\ pc[t] = "mg_fs"
        /\ rem[t] = 0
        /\ job[t] # 0
        /\ lastSavedStatusID = 0
        /\ ~lastSyncFailed
        /\ \E p \in files : text[p][1] \in Chunks

\* Task t is suspended on a network request or on a timer delay.
Suspended(t) ==
    pc[t] \in {"sb_refresh", "qe_fetch", "ge_fetch", "ge_sleep", "dl_fetch", "ack_wait"}

\* C31: at every suspension point (an awaited network call or timer delay)
\* the persisted settings equal the settings in memory in isSyncing,
\* currentSyncStatusID, booksToRefresh and booksIDsMap: every mutation of
\* them is saved before the next request or delay begins.
C31_PersistedAtSuspension ==
    (\E t \in Tasks : Suspended(t)) => disk = Persistent(Pack)

\* Task t is between the start of its create-export request (or of the poll
\* a startup resumed) and its terminal transition.
InFlight(t) ==
    pc[t] \in {"qe_fetch", "qe_savecur", "ge_fetch", "ge_sleep", "dl_fetch",
               "mg_fs", "mg_save", "ack_wait"}

\* C32: queueExport sets isSyncing and saves it before the create-export
\* request is issued, so from the start of the request to the cycle's
\* terminal transition the persisted settings have isSyncing = true (the
\* state a crash leaves, from which the startup callback recovers).
C32_PersistedWhileInFlight ==
    \A t \in Tasks : InFlight(t) => disk.isSyncing

\* A step in which the user deletes a tracked file while auto-refresh is on.
DeletesTracked ==
    /\ refreshBooks
    /\ files' # files
    /\ files' \subseteq files
    /\ \E p \in files \ files' : MapHas(booksIDsMap, p)

\* A refresh request is out.
Flushing == \E t \in Tasks : pc[t] = "sb_refresh"

DeleteEvent(path) ==
    /\ path \in files
    /\ files' = files \ {path}

\* A step in which the file at oldPath is moved to a path that was free.
RenameEvent(oldPath) ==
    /\ oldPath \in files
    /\ \E newPath \in files' \ files : files' = (files \ {oldPath}) \cup {newPath}

RecoveryEnds(t) == bootTask = t /\ bootPhase = "resume" /\ bootPhase' # "resume"

\* Task t has returned from its success handler, its error handler or the
\* save of the reset: the last await before the callback goes on.
RecoveryOver(t) == pc[t] \in {"boot_save", "he_save2", "hs_save2"}

\* The sync on load of task t has started: its refresh request or its
\* cycle is under way.
OnLoadStarted(t) == bootPhase' = "onload" /\ pc'[t] \in {"sb_refresh", "qe_pre"}

\* The callback of task t went straight on to configureSchedule.
OnLoadSkipped(t) == bootPhase' = "done" /\ pc'[t] = "idle"

\* syncBookHighlights without bookIds has nothing to refresh.
NothingToRefresh ==
    \/ booksIDsMap = <<>>
    \/ booksToRefresh = <<>> /\ (~refreshBooks \/ MissingSet = {})

\* C35 as stated: at startup with triggerOnLoad on and a token stored one new
\* run is started, once, and only after the recovery has reached the end of
\* its terminal transition; with triggerOnLoad off none is started.
C35_OneRunAtStartup ==
    [][/\ \A t \in Tasks : RecoveryEnds(t) =>
            /\ RecoveryOver(t)
            /\ IF triggerOnLoad /\ token THEN OnLoadStarted(t) ELSE OnLoadSkipped(t)
       /\ bootPhase' = "onload" => bootPhase \in {"resume", "onload"}
       /\ bootPhase = "done" => bootPhase' = "done"]_vars

\* C35, amended: the callback calls syncBookHighlights once, after the
\* recovery is over, with triggerOnLoad on and a token stored; the call
\* starts a run unless a sync the user started meanwhile is in progress and
\* there is nothing to refresh, and then it returns without one.
C35_OneCallAtStartup ==
    [][/\ \A t \in Tasks : RecoveryEnds(t) =>
            /\ RecoveryOver(t)
            /\ IF triggerOnLoad /\ token /\ ~(isSyncing /\ NothingToRefresh)
               THEN OnLoadStarted(t)
               ELSE /\ OnLoadSkipped(t)
                    /\ isSyncing' = isSyncing
                    /\ booksToRefresh' = booksToRefresh
       /\ bootPhase' = "onload" => bootPhase \in {"resume", "onload"}
       /\ bootPhase = "done" => bootPhase' = "done"]_vars

\* Job 1 was recovered and merged, and the sync on load that followed has
\* its create-export request out.
C35_Witness ==
    /\ bootPhase = "onload"
    /\ triggerOnLoad
    /\ token
    /\ lastSavedStatusID = 1
    /\ \E t \in Tasks : bootTask = t /\ pc[t] = "qe_fetch"

\* C36: in every reachable state a recorded job id means the mutex flag is
\* set: currentSyncStatusID # 0 implies isSyncing, whatever the interleaving
\* of a finishing cycle's handlers with a cycle that has just started.
C36_JobIdImpliesSyncing ==
    currentSyncStatusID # 0 => isSyncing

\* Task t has written the last entry of the archive of job J: it awaits the
\* acknowledgement, or is in the handlers that follow it.
MergeFinished(t, J) ==
    /\ job[t] = J
    /\ \/ pc[t] \in {"ack_wait", "ha_save1", "ha_save2"}
       \/ pc[t] \in {"hs_save1", "hs_save2"} /\ via[t] \in {"merged", "unacked"}

\* Task u passes the guard of downloadExport and requests the archive.
DownloadStarts(u) == pc[u] # "dl_fetch" /\ pc'[u] = "dl_fetch"

\* C37: the archive of a job is merged at most once: once the merge of job
\* J has finished, no cycle requests the archive of J again to append its
\* entries a second time.
C37_MergedAtMostOnce ==
    [][\A u \in Tasks :
          DownloadStarts(u) => ~\E t \in Tasks \ {u} : MergeFinished(t, job'[u])]_vars

\* this.settings, every field of it the model follows.
Settings ==
    << isSyncing, currentSyncStatusID, lastSavedStatusID, lastSyncFailed, booksToRefresh,
       booksIDsMap, refreshBooks, triggerOnLoad, frequency, readwiseDir, token >>

\* C38: without a stored token a sync start (the command, a scheduled tick,
\* the sync on load) issues no request and leaves every settings field as
\* it is, isSyncing and booksToRefresh included, in memory and in data.json.
C38_NoCredentialNoSync ==
    [][\A t \in Tasks :
          (~token /\ (CommandSync(t) \/ TimerTick(t) \/ RecoveryEnds(t))) =>
              /\ UNCHANGED Settings
              /\ disk' = disk
              /\ pc'[t] = "idle"]_vars

\* The callback is over without a token: the sync on load was called and
\* returned, the interval is installed, nothing is in progress.
C38_Witness ==
    /\ ~token
    /\ triggerOnLoad
    /\ bootPhase = "done"
    /\ timers > 0
    /\ ~isSyncing
    /\ \A t \in Tasks : pc[t] = "idle"

\* C39: displayMessage does not enqueue a message that is the same as the
\* message at the head of the pending queue: a call with the text the head
\* was enqueued with leaves the queue no longer than it was, so two calls in
\* a row with one text leave one pending copy.
C39_NoDuplicateOfHead ==
    [][\A message \in Texts :
          (/\ messages # <<>>
           /\ Head(messages).message = Formatted(message)
           /\ \E timeout \in Timeouts, forcing \in BOOLEAN : Notice(message, timeout, forcing))
          => Len(messages') <= Len(messages)]_vars
====
